---- MODULE Spec2Model ----
(***************************************************************************)
(* A model of fs_mgr/libsnapshot: the snapuserd control client             *)
(* (snapuserd_client.cpp) and the COW reader (cow_reader.cpp).             *)
(*                                                                         *)
(* The client is a sequential program; every action below is one call of   *)
(* a client function, or the part of a function between two calls of       *)
(* ConnectToServer.  Everything the process cannot control (whether a      *)
(* socket opens, whether send() succeeds, what recv() delivers, whether    *)
(* exec succeeds) is an input of the action, drawn with \E.                *)
(***************************************************************************)
EXTENDS Integers, Sequences, FiniteSets, TLC

(* ------------------------------ bounds --------------------------------- *)

\* The start-up poll's retry budget (snapuserd_client.h); scaled down.
MAX_CONNECT_RETRY_COUNT == 2
\* Descriptors the process may hold open at once (RLIMIT_NOFILE), scaled down.
MaxOpen == 2
\* Width of uint64_t and off_t, scaled down.
WordBits == 4
\* sizeof(CowHeader) and sizeof(CowOperation), scaled down.
HeaderSize == 2
OpSize == 2
\* Largest byte source.
MaxFileSize == 7
\* Longest device vector handed to RestartSnapuserd.
MaxTriples == 2
\* Public methods the application calls in one run.
MaxCalls == 1
\* The longest data_length of an operation, and the longest buffer of a Read.
MaxDataLength == 4
MaxBuffer == 3

(* --------------------------- client: values ---------------------------- *)

\* GetSocketNameFirstStage() / GetSocketNameSecondStage()
Stages == {"first", "second"}

\* The substrings the client looks for in a reply (std::string::find).
Keywords == {"fail", "passive", "active", "success"}

\* A received string is represented by the set of keywords it contains.
Texts == SUBSET Keywords

\* What select()/recv() can do in Receivemsg.
RxOutcomes ==
    {[kind |-> k, text |-> {}] : k \in {"select_err", "timeout", "recv_err", "eof"}}
    \cup {[kind |-> "data", text |-> t] : t \in Texts}

NoRx == [kind |-> "eof", text |-> {}]

\* What send() can do in Sendmsg.
SendOutcomes == {"sent", "error", "partial"}

\* What the environment does to one command sent on an open socket.
CmdOutcomes ==
    {[send |-> s, rx |-> NoRx] : s \in {"error", "partial"}}
    \cup {[send |-> "sent", rx |-> r] : r \in RxOutcomes}

\* What the environment does to one ConnectToServerSocket call.
SockOutcomes ==
    {[open |-> FALSE, send |-> "error", rx |-> NoRx]}
    \cup {[open |-> TRUE, send |-> c.send, rx |-> c.rx] : c \in CmdOutcomes}

\* fork() followed by execv() in StartSnapuserdaemon.
ForkOutcomes == {"fork_fail", "exec_ok", "exec_fail"}

\* The device triples (cow, base, control) of the callers.
Triples == {<<"cow_a", "base_a", "ctl_a">>, <<"cow_b", "base_b", "ctl_b">>}

RECURSIVE SeqsUpTo(_, _)
SeqsUpTo(S, n) ==
    IF n = 0 THEN {<<>>}
    ELSE LET shorter == SeqsUpTo(S, n - 1)
         IN  shorter \cup {Append(s, x) : s \in {t \in shorter : Len(t) = n - 1}, x \in S}

\* The vectors name each device at most once.
Vectors ==
    {v \in SeqsUpTo(Triples, MaxTriples) : \A i, j \in 1 .. Len(v) : v[i] = v[j] => i = j}

\* Descriptor numbers: 0, 1 and 2 are the standard streams.
FdIds == 3 .. (2 + MaxOpen)

QueryMsg == <<"query">>
StopMsg == <<"stop">>
TerminateMsg == <<"terminate-request">>
StartMsg(d) == <<"start", d[1], d[2], d[3]>>

ForkEvent == [to |-> "fork", msg |-> <<>>]

VARIABLES
    pc,           \* where the client is: "idle" between calls
    stack,        \* the client functions in progress, outermost first
    api,          \* the public method called last
    ret,          \* its return value: <<>> while it runs, else <<v>>
    sockfd,       \* SnapuserdClient::sockfd_
    conn,         \* the process's open sockets: descriptor -> socket name
    stage,        \* each daemon: "down", "starting", "active" or "passive"
    wire,         \* what the daemons observed during this call, and the fork
    retry_count,  \* StartSnapuserdaemon's local
    sret,         \* StartSnapuserdaemon's return value
    socketname,   \* StartSnapuserdaemon's argument
    idx,          \* RestartSnapuserd's loop variable i
    vec,          \* RestartSnapuserd's argument
    dev,          \* InitializeSnapuserd's arguments
    cres,         \* ConnectToServer's return value
    tried,        \* the sockets this ConnectToServer has tried, in order
    answered,     \* what the last of them did (Answer)
    conn0,        \* the open sockets when this ConnectToServer was entered
    child,        \* the forked child: "none", "snapuserd", "ret_startd", "ret_api"
    nominal,      \* the environment has followed the protocol during this call
    calls,        \* public methods called so far
    irets,        \* what each InitializeSnapuserd of this call returned
    polls,        \* what each ConnectToServer of this StartSnapuserdaemon returned
    rxlast        \* the last Receivemsg: who called it and what select/recv did

clientVars == <<pc, stack, api, ret, sockfd, conn, stage, wire, retry_count, sret,
                socketname, idx, vec, dev, cres, tried, answered, conn0, child, nominal,
                calls, irets, polls, rxlast>>

VARIABLES
    file,         \* the byte source handed to Parse: its size and its header
    fd_,          \* CowReader::fd_: "none" (-1) or "file"
    header_,      \* CowReader::header_
    fd_size_,     \* CowReader::fd_size_
    parsed,       \* what the last Parse returned: "never", "ok" or "failed"
    iter,         \* the CowOpIter in use: <<>> or <<[ops, pos, done]>>
    turn,         \* whether the loop driving it calls Get or Next next
    yielded,      \* the records Get has returned to that loop
    last,         \* the last reader call: its arguments, result and I/O
    req,          \* the (offset, len) the application asks GetRawBytes for
    rproc         \* the process using the reader: "running" or "aborted"

readerVars ==
    <<file, fd_, header_, fd_size_, parsed, iter, turn, yielded, last, req, rproc>>

VARIABLES
    stream,       \* the CowDataStream of the running ReadData: <<>> or <<[offset_, ...]>>
    dec,          \* the decompressor ReadData chose: "none" when there is none
    sread,        \* the last CowDataStream::Read: its argument and result
    served,       \* the container offsets whose bytes the stream has handed out
    sink          \* what the IByteSink has been given

streamVars == <<stream, dec, sread, served, sink>>

vars == <<clientVars, readerVars, streamVars>>

(* -------------------------- client: helpers ---------------------------- *)

Min(S) == CHOOSE x \in S : \A y \in S : x <= y

EmptyConn == [f \in {} |-> "first"]

\* socket_local_client(): the lowest free descriptor, or -1.
socket_local_client(c, openOk) ==
    LET free == FdIds \ DOMAIN c
    IN  IF openOk /\ free # {} THEN Min(free) ELSE -1

Connected(c, fd, name) ==
    [f \in DOMAIN c \cup {fd} |-> IF f = fd THEN name ELSE c[f]]

\* close(fd): closing what is not open changes nothing (EBADF).
Close(c, fd) == [f \in DOMAIN c \ {fd} |-> c[f]]

DisconnectFromServer(c, fd) == Close(c, fd)

Sendmsg(c, fd, s) == IF fd \in DOMAIN c /\ s = "sent" THEN 0 ELSE -1

\* A Receivemsg whose string starts out empty.
ReceivemsgEmptyByDefault(rx) == IF rx.kind = "data" THEN rx.text ELSE {}

\* msgStr starts as "fail" and is replaced only by data that recv() returned.
Receivemsg(rx) == IF rx.kind = "data" THEN rx.text ELSE {"fail"}

NoReceive == [by |-> "none", kind |-> "none", ack |-> FALSE]

\* ack: the reply is an acknowledgement, "success" and no "fail" in it.
Received(by, rx) ==
    [by |-> by, kind |-> rx.kind,
     ack |-> rx.kind = "data" /\ "success" \in rx.text /\ "fail" \notin rx.text]

\* The message reaches the daemon behind the descriptor.
Observed(w, c, fd, msg) == Append(w, [to |-> c[fd], msg |-> msg])

\* A daemon that gets terminate-request turns passive; one that gets stop exits.
DaemonAfter(st, name, msg) ==
    IF msg = TerminateMsg /\ st[name] = "active" THEN [st EXCEPT ![name] = "passive"]
    ELSE IF msg = StopMsg THEN [st EXCEPT ![name] = "down"]
    ELSE st

\* The socket opens: the daemon listens and a descriptor is free.
Opened(o) == socket_local_client(conn, o.open) >= 0

\* What the protocol makes of one ConnectToServerSocket call.
NominalSock(name, o) ==
    CASE stage[name] = "active" ->
            /\ Opened(o)
            /\ o = [open |-> TRUE, send |-> "sent", rx |-> [kind |-> "data", text |-> {"active"}]]
      [] stage[name] = "passive" ->
            /\ Opened(o)
            /\ o = [open |-> TRUE, send |-> "sent", rx |-> [kind |-> "data", text |-> {"passive"}]]
      [] OTHER -> ~Opened(o)

NominalCmd(o) == o = [send |-> "sent", rx |-> [kind |-> "data", text |-> {"success"}]]

\* The claim's vocabulary for what happened on one socket.
Answer(o) ==
    IF ~Opened(o) THEN "open_fail"
    ELSE IF o.send # "sent" THEN "send_fail"
    ELSE IF o.rx.kind # "data" THEN "recv_fail"
    ELSE IF "fail" \in o.rx.text THEN "fail"
    ELSE IF "passive" \in o.rx.text THEN "passive"
    ELSE IF "active" \in o.rx.text THEN "active"
    ELSE "other"

Top == stack[Len(stack)]

(* ------------------- client: ConnectToServerSocket --------------------- *)

\* A ConnectToServerSocket that does not look for "passive" in the reply.
RepliedPassiveNever(str) == FALSE

\* ConnectToServerSocket's test for a passive daemon.
RepliedPassive(str) == "passive" \in str

\* ConnectToServerSocket without the DisconnectFromServer() of its passive
\* branch.
ConnectToServerSocketKeepsPassive(name, o) ==
    LET fd   == socket_local_client(conn, o.open)
        c1   == IF fd < 0 THEN conn ELSE Connected(conn, fd, name)
        sent == Sendmsg(c1, fd, o.send)
        w1   == IF sent = 0 THEN Observed(wire, c1, fd, QueryMsg) ELSE wire
        str  == Receivemsg(o.rx)
        out(ok, c, w, ab) ==
            [ok |-> ok, sockfd |-> fd, conn |-> c, wire |-> w, abort |-> ab]
    IN  IF fd < 0 THEN out(FALSE, conn, wire, FALSE)
        ELSE IF sent < 0 THEN out(FALSE, DisconnectFromServer(c1, fd), wire, FALSE)
        ELSE IF "fail" \in str THEN out(FALSE, DisconnectFromServer(c1, fd), w1, FALSE)
        ELSE IF RepliedPassive(str) THEN out(FALSE, c1, w1, FALSE)
        ELSE IF "active" \notin str THEN out(FALSE, EmptyConn, w1, TRUE)
        ELSE out(TRUE, c1, w1, FALSE)

\* ConnectToServerSocket(socketname) under environment outcome o: the
\* function's result and what it leaves behind.
ConnectToServerSocket(name, o) ==
    LET fd   == socket_local_client(conn, o.open)
        c1   == IF fd < 0 THEN conn ELSE Connected(conn, fd, name)
        sent == Sendmsg(c1, fd, o.send)
        w1   == IF sent = 0 THEN Observed(wire, c1, fd, QueryMsg) ELSE wire
        str  == Receivemsg(o.rx)
        out(ok, c, w, ab) ==
            [ok |-> ok, sockfd |-> fd, conn |-> c, wire |-> w, abort |-> ab]
    IN  IF fd < 0 THEN out(FALSE, conn, wire, FALSE)
        ELSE IF sent < 0 THEN out(FALSE, DisconnectFromServer(c1, fd), wire, FALSE)
        ELSE IF "fail" \in str THEN out(FALSE, DisconnectFromServer(c1, fd), w1, FALSE)
        ELSE IF RepliedPassive(str) THEN out(FALSE, DisconnectFromServer(c1, fd), w1, FALSE)
        ELSE IF "active" \notin str THEN out(FALSE, EmptyConn, w1, TRUE)
        ELSE out(TRUE, c1, w1, FALSE)

(* --------------------------- client: steps ----------------------------- *)

\* A public method returns v to the application.
ReturnToCaller(v) ==
    /\ pc' = "idle"
    /\ stack' = <<>>
    /\ ret' = <<v>>

\* CHECK() failed: the process aborts and the kernel closes what it held.
Abort ==
    /\ pc' = "aborted"
    /\ conn' = EmptyConn
    /\ UNCHANGED <<stack, ret>>

\* A caller enters ConnectToServer.
EnterConnect ==
    /\ pc' = "cts_first"
    /\ tried' = <<>>
    /\ answered' = "none"
    /\ conn0' = conn
    /\ cres' = FALSE

\* The caller has read ConnectToServer's result.
LeaveConnect ==
    /\ tried' = <<>>
    /\ answered' = "none"
    /\ conn0' = EmptyConn
    /\ cres' = FALSE

\* ConnectToServer, its first line: ConnectToServerSocket(first stage).
ConnectFirstStage(o) ==
    /\ pc = "cts_first"
    /\ LET r == ConnectToServerSocket("first", o)
       IN  /\ sockfd' = r.sockfd
           /\ rxlast' = IF Opened(o) /\ o.send = "sent"
                          THEN Received("connect", o.rx) ELSE NoReceive
           /\ wire' = r.wire
           /\ tried' = Append(tried, "first")
           /\ answered' = Answer(o)
           /\ nominal' = (nominal /\ NominalSock("first", o))
           /\ IF r.abort
                THEN Abort /\ UNCHANGED cres
                ELSE /\ conn' = r.conn
                     /\ cres' = r.ok
                     /\ pc' = IF r.ok THEN "cts_ret" ELSE "cts_second"
                     /\ UNCHANGED <<stack, ret>>
    /\ UNCHANGED <<api, stage, retry_count, sret, socketname, idx, vec, dev, conn0, child, calls,
                   irets, polls>>
    /\ UNCHANGED <<readerVars, streamVars>>

\* ConnectToServer, its second line: ConnectToServerSocket(second stage).
ConnectSecondStage(o) ==
    /\ pc = "cts_second"
    /\ LET r == ConnectToServerSocket("second", o)
       IN  /\ sockfd' = r.sockfd
           /\ rxlast' = IF Opened(o) /\ o.send = "sent"
                          THEN Received("connect", o.rx) ELSE NoReceive
           /\ wire' = r.wire
           /\ tried' = Append(tried, "second")
           /\ answered' = Answer(o)
           /\ nominal' = (nominal /\ NominalSock("second", o))
           /\ IF r.abort
                THEN Abort /\ UNCHANGED cres
                ELSE /\ conn' = r.conn
                     /\ cres' = r.ok
                     /\ pc' = "cts_ret"
                     /\ UNCHANGED <<stack, ret>>
    /\ UNCHANGED <<api, stage, retry_count, sret, socketname, idx, vec, dev, conn0, child, calls,
                   irets, polls>>
    /\ UNCHANGED <<readerVars, streamVars>>

NoDev == <<"", "", "">>

\* A public method is called with its arguments: the observations of the last
\* call are dropped, and the locals of the functions it runs do not exist yet.
Called(name, v, d, sn) ==
    /\ pc = "idle"
    /\ calls < MaxCalls
    /\ calls' = calls + 1
    /\ api' = name
    /\ vec' = v
    /\ dev' = d
    /\ socketname' = sn
    /\ idx' = 0
    /\ retry_count' = 0
    /\ sret' = 0
    /\ irets' = <<>>
    /\ polls' = <<>>
    /\ rxlast' = NoReceive

\* A stop(true) that makes the query handshake first.
StopFirstStageWireAfterQuery(c, fd) ==
    Observed(Observed(<<>>, c, fd, QueryMsg), c, fd, StopMsg)

\* What StopSnapuserd(true) sends on the socket it opened: "stop", nothing else.
StopFirstStageWire(c, fd) == Observed(<<>>, c, fd, StopMsg)

(* StopSnapuserd(true): the whole method. *)
StopFirstStage(openOk, s) ==
    /\ Called("stop", <<>>, NoDev, "")
    /\ LET fd   == socket_local_client(conn, openOk)
           c1   == IF fd < 0 THEN conn ELSE Connected(conn, fd, "first")
           sent == Sendmsg(c1, fd, s)
       IN  /\ sockfd' = fd
           /\ IF fd < 0
                THEN /\ UNCHANGED <<conn, stage>>
                     /\ wire' = <<>>
                     /\ ret' = <<-1>>
                ELSE IF sent < 0
                THEN /\ conn' = c1
                     /\ wire' = <<>>
                     /\ ret' = <<-1>>
                     /\ UNCHANGED stage
                ELSE /\ conn' = DisconnectFromServer(c1, fd)
                     /\ wire' = StopFirstStageWire(c1, fd)
                     /\ stage' = DaemonAfter(stage, c1[fd], StopMsg)
                     /\ ret' = <<0>>
           /\ nominal' = (stage["first"] \in {"active", "passive"} /\ openOk /\ s = "sent")
    /\ pc' = "idle"
    /\ stack' = <<>>
    /\ UNCHANGED <<cres, tried, answered, conn0, child>>
    /\ UNCHANGED <<readerVars, streamVars>>

(* StopSnapuserd(false) up to its call of ConnectToServer. *)
StopBegin ==
    /\ Called("stop", <<>>, NoDev, "")
    /\ ret' = <<>>
    /\ wire' = <<>>
    /\ stack' = <<"stop">>
    /\ EnterConnect
    /\ nominal' = TRUE
    /\ UNCHANGED <<sockfd, conn, stage, child>>
    /\ UNCHANGED <<readerVars, streamVars>>

(* StopSnapuserd(false) from the return of ConnectToServer. *)
StopRest(s) ==
    /\ pc = "cts_ret" /\ Top = "stop"
    /\ LeaveConnect
    /\ IF ~cres
         THEN /\ ReturnToCaller(-1)
              /\ UNCHANGED <<conn, stage, wire, nominal>>
         ELSE LET sent == Sendmsg(conn, sockfd, s)
              IN  /\ nominal' = (nominal /\ s = "sent")
                  /\ IF sent < 0
                       THEN /\ ReturnToCaller(-1)
                            /\ UNCHANGED <<conn, stage, wire>>
                       ELSE /\ wire' = Observed(wire, conn, sockfd, StopMsg)
                            /\ stage' = DaemonAfter(stage, conn[sockfd], StopMsg)
                            /\ conn' = DisconnectFromServer(conn, sockfd)
                            /\ ReturnToCaller(0)
    /\ rxlast' = NoReceive
    /\ UNCHANGED <<api, sockfd, retry_count, sret, socketname, idx, vec, dev, child, calls, irets, polls>>
    /\ UNCHANGED <<readerVars, streamVars>>

(* InitializeSnapuserd returns v: to the application, or into the loop of   *)
(* RestartSnapuserd, which drops the value.                                 *)
InitializeReturns(v) ==
    /\ irets' = Append(irets, v)
    /\ UNCHANGED polls
    /\ IF stack = <<"init">>
         THEN /\ ReturnToCaller(v)
              /\ UNCHANGED idx
         ELSE /\ pc' = "rs_loop"
              /\ stack' = <<"restart">>
              /\ idx' = idx + 1
              /\ UNCHANGED ret

(* InitializeSnapuserd up to its call of ConnectToServer. *)
InitializeBegin(d) ==
    /\ Called("init", <<>>, d, "")
    /\ ret' = <<>>
    /\ wire' = <<>>
    /\ stack' = <<"init">>
    /\ EnterConnect
    /\ nominal' = TRUE
    /\ UNCHANGED <<sockfd, conn, stage, child>>
    /\ UNCHANGED <<readerVars, streamVars>>

(* InitializeSnapuserd from the return of ConnectToServer. *)
InitializeRest(o) ==
    /\ pc = "cts_ret" /\ Top = "init"
    /\ LeaveConnect
    /\ rxlast' = IF cres /\ Sendmsg(conn, sockfd, o.send) = 0
                   THEN Received("init", o.rx) ELSE NoReceive
    /\ IF ~cres
         THEN /\ InitializeReturns(-1)
              /\ UNCHANGED <<conn, stage, wire, nominal>>
         ELSE LET sent == Sendmsg(conn, sockfd, o.send)
                  str  == Receivemsg(o.rx)
              IN  /\ nominal' = (nominal /\ NominalCmd(o))
                  /\ IF sent < 0
                       THEN /\ InitializeReturns(-1)
                            /\ UNCHANGED <<conn, stage, wire>>
                       ELSE /\ wire' = Observed(wire, conn, sockfd, StartMsg(dev))
                            /\ stage' = DaemonAfter(stage, conn[sockfd], StartMsg(dev))
                            /\ IF "fail" \in str
                                 THEN /\ InitializeReturns(-1)
                                      /\ UNCHANGED conn
                                 ELSE /\ conn' = DisconnectFromServer(conn, sockfd)
                                      /\ InitializeReturns(0)
    /\ UNCHANGED <<api, sockfd, retry_count, sret, socketname, vec, dev, child, calls>>
    /\ UNCHANGED <<readerVars, streamVars>>

(* StartSnapuserd up to fork(). *)
StartBegin ==
    /\ Called("start", <<>>, NoDev, "first")
    /\ ret' = <<>>
    /\ wire' = <<>>
    /\ stack' = <<"start", "startd">>
    /\ pc' = "startd_fork"
    /\ nominal' = TRUE
    /\ UNCHANGED <<sockfd, conn, stage, cres, tried, answered, conn0, child>>
    /\ UNCHANGED <<readerVars, streamVars>>

(* StartSnapuserdaemon: retry_count = 0, fork(), and execv() in the child. *)
StartSnapuserdaemonFork(f) ==
    /\ pc = "startd_fork"
    /\ retry_count' = 0
    /\ polls' = <<>>
    /\ UNCHANGED rxlast
    /\ wire' = Append(wire, ForkEvent)
    /\ child' = CASE f = "exec_ok" -> "snapuserd"
                  [] f = "exec_fail" -> "ret_startd"
                  [] OTHER -> child
    /\ stage' = IF f = "exec_ok" /\ stage[socketname] = "down"
                  THEN [stage EXCEPT ![socketname] = "starting"]
                  ELSE stage
    /\ nominal' = (nominal /\ f = "exec_ok")
    /\ pc' = "startd_loop"
    /\ UNCHANGED <<stack, api, ret, sockfd, conn, sret, socketname, idx, vec, dev, cres,
                   tried, answered, conn0, calls, irets>>
    /\ UNCHANGED <<readerVars, streamVars>>

\* A loop that polls once more than the budget allows.
RetryAllowedOnceMore(n) == n <= MAX_CONNECT_RETRY_COUNT

\* The condition of the while loop.
RetryAllowed(n) == n < MAX_CONNECT_RETRY_COUNT

(* StartSnapuserdaemon: the head of the while loop. *)
StartSnapuserdaemonLoop ==
    /\ pc = "startd_loop"
    /\ IF RetryAllowed(retry_count)
         THEN /\ EnterConnect
              /\ UNCHANGED sret
         ELSE /\ sret' = -1
              /\ pc' = "startd_ret"
              /\ UNCHANGED <<cres, tried, answered, conn0>>
    /\ UNCHANGED <<stack, api, ret, sockfd, conn, stage, wire, retry_count, socketname,
                   idx, vec, dev, child, nominal, calls, irets, polls, rxlast>>
    /\ UNCHANGED <<readerVars, streamVars>>

(* StartSnapuserdaemon: the body of the while loop after ConnectToServer. *)
StartSnapuserdaemonPolled ==
    /\ pc = "cts_ret" /\ Top = "startd"
    /\ LeaveConnect
    /\ polls' = Append(polls, cres)
    /\ rxlast' = NoReceive
    /\ IF ~cres
         THEN /\ retry_count' = retry_count + 1
              /\ pc' = "startd_loop"
              /\ UNCHANGED <<conn, sret>>
         ELSE /\ conn' = Close(conn, sockfd)
              /\ sret' = 0
              /\ pc' = "startd_ret"
              /\ UNCHANGED retry_count
    /\ UNCHANGED <<stack, api, ret, sockfd, stage, wire, socketname, idx, vec, dev, child,
                   nominal, calls, irets>>
    /\ UNCHANGED <<readerVars, streamVars>>

(* StartSnapuserd from the return of StartSnapuserdaemon. *)
StartRest ==
    /\ pc = "startd_ret" /\ stack = <<"start", "startd">>
    /\ ReturnToCaller(IF sret < 0 THEN -1 ELSE 0)
    /\ UNCHANGED <<api, sockfd, conn, stage, wire, retry_count, sret, socketname, idx, vec,
                   dev, cres, tried, answered, conn0, child, nominal, calls, irets, polls, rxlast>>
    /\ UNCHANGED <<readerVars, streamVars>>

(* RestartSnapuserd up to its call of ConnectToServer. *)
RestartBegin(v) ==
    /\ Called("restart", v, NoDev, "")
    /\ ret' = <<>>
    /\ wire' = <<>>
    /\ stack' = <<"restart">>
    /\ EnterConnect
    /\ nominal' = (stage["first"] = "active" /\ stage["second"] = "down")
    /\ UNCHANGED <<sockfd, conn, stage, child>>
    /\ UNCHANGED <<readerVars, streamVars>>

\* A RestartSnapuserd that does not look for "fail" in the reply.
TerminateRefusedNever(str) == FALSE

\* RestartSnapuserd's test of the reply to terminate-request.
TerminateRefused(str) == "fail" \in str

(* RestartSnapuserd from the return of ConnectToServer to the call of       *)
(* StartSnapuserdaemon: terminate-request and its acknowledgement.          *)
RestartTerminate(o) ==
    /\ pc = "cts_ret" /\ Top = "restart"
    /\ LeaveConnect
    /\ rxlast' = IF cres /\ Sendmsg(conn, sockfd, o.send) = 0
                   THEN Received("restart", o.rx) ELSE NoReceive
    /\ IF ~cres
         THEN /\ ReturnToCaller(-1)
              /\ UNCHANGED <<conn, stage, wire, nominal, socketname>>
         ELSE LET sent == Sendmsg(conn, sockfd, o.send)
                  str  == Receivemsg(o.rx)
              IN  /\ nominal' = (nominal /\ NominalCmd(o))
                  /\ IF sent < 0
                       THEN /\ ReturnToCaller(-1)
                            /\ UNCHANGED <<conn, stage, wire, socketname>>
                       ELSE /\ wire' = Observed(wire, conn, sockfd, TerminateMsg)
                            /\ stage' = DaemonAfter(stage, conn[sockfd], TerminateMsg)
                            /\ IF TerminateRefused(str)
                                 THEN /\ ReturnToCaller(-1)
                                      /\ UNCHANGED <<conn, socketname>>
                                 ELSE IF "success" \notin str
                                 THEN /\ Abort
                                      /\ UNCHANGED socketname
                                 ELSE /\ conn' = DisconnectFromServer(conn, sockfd)
                                      /\ socketname' = "second"
                                      /\ stack' = <<"restart", "startd">>
                                      /\ pc' = "startd_fork"
                                      /\ UNCHANGED ret
    /\ UNCHANGED <<api, sockfd, retry_count, sret, idx, vec, dev, child, calls, irets, polls>>
    /\ UNCHANGED <<readerVars, streamVars>>

(* RestartSnapuserd from the return of StartSnapuserdaemon to the loop. *)
RestartStarted ==
    /\ pc = "startd_ret" /\ stack = <<"restart", "startd">>
    /\ IF sret < 0
         THEN ReturnToCaller(-1)
         ELSE /\ pc' = "rs_loop"
              /\ stack' = <<"restart">>
              /\ UNCHANGED ret
    /\ UNCHANGED <<api, sockfd, conn, stage, wire, retry_count, sret, socketname, idx, vec,
                   dev, cres, tried, answered, conn0, child, nominal, calls, irets, polls, rxlast>>
    /\ UNCHANGED <<readerVars, streamVars>>

\* A loop that walks the vector from its end.
NextDeviceReversed == vec[Len(vec) - idx]

\* vec[i] of the for loop: cow_device, base_device, control_device.
NextDevice == vec[idx + 1]

(* RestartSnapuserd: the head of the for loop, and the final return 0. *)
RestartLoop ==
    /\ pc = "rs_loop"
    /\ IF idx < Len(vec)
         THEN /\ dev' = NextDevice
              /\ stack' = <<"restart", "init">>
              /\ EnterConnect
              /\ UNCHANGED ret
         ELSE /\ ReturnToCaller(0)
              /\ UNCHANGED <<dev, cres, tried, answered, conn0>>
    /\ UNCHANGED <<api, sockfd, conn, stage, wire, retry_count, sret, socketname, idx, vec,
                   child, nominal, calls, irets, polls, rxlast>>
    /\ UNCHANGED <<readerVars, streamVars>>

(* The daemon that was exec'ed has bound its socket and serves it. *)
DaemonReady(name) ==
    /\ stage[name] = "starting"
    /\ stage' = [stage EXCEPT ![name] = "active"]
    /\ UNCHANGED <<pc, stack, api, ret, sockfd, conn, wire, retry_count, sret, socketname,
                   idx, vec, dev, cres, tried, answered, conn0, child, nominal, calls, irets, polls, rxlast>>
    /\ UNCHANGED <<readerVars, streamVars>>

(* The child whose execv() failed returns -1 from StartSnapuserdaemon and   *)
(* then, through the caller's error path, to the application.               *)
ChildReturns ==
    /\ child = "ret_startd"
    /\ child' = "ret_api"
    /\ UNCHANGED <<pc, stack, api, ret, sockfd, conn, stage, wire, retry_count, sret,
                   socketname, idx, vec, dev, cres, tried, answered, conn0, nominal, calls, irets, polls, rxlast>>
    /\ UNCHANGED <<readerVars, streamVars>>

ClientInit ==
    /\ pc = "idle"
    /\ stack = <<>>
    /\ api = "none"
    /\ ret = <<>>
    /\ sockfd = 0
    /\ conn = EmptyConn
    /\ stage \in {[first |-> a, second |-> "down"] : a \in {"down", "active", "passive"}}
    /\ wire = <<>>
    /\ retry_count = 0
    /\ sret = 0
    /\ socketname = "first"
    /\ idx = 0
    /\ vec = <<>>
    /\ dev = <<"cow_a", "base_a", "ctl_a">>
    /\ cres = FALSE
    /\ tried = <<>>
    /\ answered = "none"
    /\ conn0 = EmptyConn
    /\ child = "none"
    /\ nominal = TRUE
    /\ calls = 0
    /\ irets = <<>>
    /\ polls = <<>>
    /\ rxlast = NoReceive

ClientNext ==
    \/ \E o \in SockOutcomes : ConnectFirstStage(o)
    \/ \E o \in SockOutcomes : ConnectSecondStage(o)
    \/ \E openOk \in BOOLEAN, s \in SendOutcomes : StopFirstStage(openOk, s)
    \/ StopBegin
    \/ \E s \in SendOutcomes : StopRest(s)
    \/ \E d \in Triples : InitializeBegin(d)
    \/ \E o \in CmdOutcomes : InitializeRest(o)
    \/ StartBegin
    \/ \E f \in ForkOutcomes : StartSnapuserdaemonFork(f)
    \/ StartSnapuserdaemonLoop
    \/ StartSnapuserdaemonPolled
    \/ StartRest
    \/ \E v \in Vectors : RestartBegin(v)
    \/ \E o \in CmdOutcomes : RestartTerminate(o)
    \/ RestartStarted
    \/ RestartLoop
    \/ \E name \in Stages : DaemonReady(name)
    \/ ChildReturns

(* ------------------------- client: properties -------------------------- *)

Rejected == {"open_fail", "send_fail", "recv_fail", "fail", "passive"}

Query(name) == [to |-> name, msg |-> QueryMsg]

RestartReturned == pc = "idle" /\ api = "restart"

\* C1: ConnectToServer tries the first-stage socket and then the second-stage
\* socket.  It moves on to the second socket only after the first was
\* rejected (open, send or receive failure, a reply with "fail" or with
\* "passive") and closed again; it returns true only holding the socket it
\* tried last, whose daemon answered "active"; it returns false only after
\* both sockets were rejected and closed again.
C1_ConnectChain ==
    /\ pc = "cts_second" =>
          /\ tried = <<"first">>
          /\ answered \in Rejected
          /\ conn = conn0
    /\ (pc = "cts_ret" /\ cres) =>
          /\ tried \in {<<"first">>, <<"first", "second">>}
          /\ answered = "active"
          /\ sockfd \in DOMAIN conn
          /\ conn[sockfd] = tried[Len(tried)]
          /\ Close(conn, sockfd) = conn0
    /\ (pc = "cts_ret" /\ ~cres) =>
          /\ tried = <<"first", "second">>
          /\ answered \in Rejected
          /\ conn = conn0

\* ConnectToServer returned true from the second socket, both daemons having
\* seen the query.
C1_Witness ==
    /\ pc = "cts_ret" /\ cres
    /\ tried = <<"first", "second">>
    /\ wire = <<Query("first"), Query("second")>>

RECURSIVE Repeat(_, _)
Repeat(s, n) == IF n = 0 THEN <<>> ELSE s \o Repeat(s, n - 1)

\* What the daemons see of one ConnectToServer that ends on the second stage.
Handshake == <<Query("first"), Query("second")>>

RECURSIVE Initializations(_)
Initializations(v) ==
    IF v = <<>> THEN <<>>
    ELSE Handshake \o <<[to |-> "second", msg |-> StartMsg(Head(v))]>>
         \o Initializations(Tail(v))

TerminateRequested ==
    <<Query("first"), [to |-> "first", msg |-> TerminateMsg], ForkEvent>>

\* The scenario of the claim: the first stage was active and acknowledged
\* terminate-request, exec succeeded, every reply followed the protocol, and
\* the second stage came up within the retry budget.
HandoffScenario ==
    RestartReturned /\ nominal /\ retry_count < MAX_CONNECT_RETRY_COUNT

\* C2 as stated: in the scenario restart returns 0 and the daemons see query,
\* terminate-request, the fork, then only queries, the last one answered by
\* the second stage, then nothing but one start per triple in vector order.
C2_AsStated ==
    HandoffScenario =>
        /\ ret = <<0>>
        /\ LET k == Len(wire) - Len(vec)
           IN  /\ k >= 4
               /\ SubSeq(wire, 1, 3) = TerminateRequested
               /\ \A i \in 4 .. k : wire[i].msg = QueryMsg
               /\ wire[k] = Query("second")
               /\ \A j \in 1 .. Len(vec) :
                     wire[k + j] = [to |-> "second", msg |-> StartMsg(vec[j])]

\* C2 amended: in the scenario restart returns 0 and the daemons see query,
\* terminate-request, the fork, one query to the (passive) first stage per
\* failed poll, the handshake of the poll that succeeds, and then per triple,
\* in vector order, a handshake followed by its start message.
C2_HandoffWire ==
    HandoffScenario =>
        /\ ret = <<0>>
        /\ wire = TerminateRequested \o Repeat(<<Query("first")>>, retry_count)
                  \o Handshake \o Initializations(vec)

\* The scenario with one failed poll and two triples.
C2_Witness ==
    /\ HandoffScenario
    /\ retry_count = 1
    /\ Len(vec) = 2
    /\ ret = <<0>>

\* C3: restart returns a negative result when an initialize of its step 3
\* failed.
C3_RestartReportsInitFailure ==
    (RestartReturned /\ \E i \in 1 .. Len(irets) : irets[i] < 0) => ret = <<-1>>

\* C4: no socket the client opened is open once the method has returned.
C4_NoSocketLeftOpen == pc = "idle" => conn = EmptyConn

(* --------------------------- reader: values ---------------------------- *)

Modulus == 2 ^ WordBits

\* uint64_t
Words == 0 .. Modulus - 1

\* The largest off_t.
OffMax == (Modulus \div 2) - 1

\* Unsigned arithmetic: the result modulo 2^WordBits.
Wrap(x) == x % Modulus

FileSizes == {n \in 0 .. MaxFileSize : n <= OffMax}

\* The byte stored at offset i of the container is written i: the reader never
\* looks into the bytes it copies, so a byte's origin is all that matters.
ByteAt(i) == i

\* Stored digests: all zero bytes, the SHA-256 of the bytes they cover, or
\* something else.
Digests == {"zero", "sha256", "wrong"}

HeaderFields ==
    <<"magic", "major_version", "minor_version", "header_size", "ops_offset", "ops_size",
      "header_checksum", "ops_checksum">>

\* CowHeader as the constructor leaves it: header_().
ZeroHeader ==
    [magic |-> "zero", major_version |-> "zero", minor_version |-> "zero",
     header_size |-> 0, ops_offset |-> 0, ops_size |-> 0,
     header_checksum |-> "zero", ops_checksum |-> "zero"]

WrittenHeader(off, size, hc, oc) ==
    [magic |-> "kCowMagicNumber", major_version |-> "kCowVersionMajor",
     minor_version |-> "kCowVersionMinor", header_size |-> HeaderSize,
     ops_offset |-> off, ops_size |-> size, header_checksum |-> hc, ops_checksum |-> oc]

\* The headers of the containers: any op-table range and digests, and at most
\* one self-description field that is not what the reader was compiled with.
Headers ==
    UNION {
        {WrittenHeader(off, size, hc, oc) : hc \in Digests}
        \cup {[WrittenHeader(off, size, "zero", oc) EXCEPT !.magic = "other"],
              [WrittenHeader(off, size, "zero", oc) EXCEPT !.major_version = "other"],
              [WrittenHeader(off, size, "zero", oc) EXCEPT !.minor_version = "other"],
              [WrittenHeader(off, size, "zero", oc) EXCEPT !.header_size = HeaderSize + 1]}
        : off \in Words, size \in Words, oc \in Digests}

Files == {[size |-> n, hdr |-> h] : n \in FileSizes, h \in Headers}

\* The first k fields of h over a zeroed header: what a read that stops early
\* leaves in header_.
HeaderPrefix(h, k) ==
    [f \in DOMAIN h |->
        IF \E i \in 1 .. k : HeaderFields[i] = f THEN h[f] ELSE ZeroHeader[f]]

NoCall ==
    [op |-> "none", ok |-> FALSE, off |-> 0, len |-> 0, n |-> 0, seeks |-> <<>>,
     bytes |-> {}, hdr |-> ZeroHeader, compression |-> "none"]

Seek(whence, off) == [whence |-> whence, off |-> off]

(* -------------------------- reader: helpers ---------------------------- *)

\* A real digest function: the SHA-256 of the data.
SHA256Computed(out) == "sha256"

\* static void SHA256(const void*, size_t, uint8_t out[]): the body is
\* compiled out, so the digest buffer keeps what it held.
SHA256(out) == out

\* lseek(fd, off, SEEK_SET) with off converted to off_t.
LseekSetOk(fd, off) == fd = "file" /\ off <= OffMax

\* The offsets android::base::ReadFully(fd, buf, n) reads from position start.
BytesRead(start, n) == {i \in start .. (start + n - 1) : i < file.size}

ReadFullyOk(start, n) == start + n <= file.size

\* CowOpIter::HasNext()
HasNextOffByOne(pos, end) == pos < end /\ end - pos > OpSize

HasNext(pos, end) == pos < end /\ end - pos >= OpSize

\* *reinterpret_cast<const CowOperation*>(pos_)
RecordAtStart(ops, pos) == SubSeq(ops, 1, OpSize)

RecordAt(ops, pos) == SubSeq(ops, pos + 1, pos + OpSize)

\* The range checks of Parse on header h of a source of fsize bytes.
RangeOk(h, fsize) ==
    /\ ~(h.ops_offset >= fsize)
    /\ ~(Wrap(fsize - h.ops_offset + Modulus) < h.ops_size)

\* The remaining checks of Parse, in its order.
SelfDescriptionOk(h) ==
    /\ h.magic = "kCowMagicNumber"
    /\ h.header_size = HeaderSize
    /\ h.major_version = "kCowVersionMajor"
    /\ h.minor_version = "kCowVersionMinor"

HeaderChecksumOk(h) == SHA256("zero") = h.header_checksum

\* The range check of GetRawBytes.
RawRangeOk(offset, len) ==
    ~(\/ offset < HeaderSize
      \/ offset >= header_.ops_offset
      \/ len >= fd_size_
      \/ Wrap(offset + len) > header_.ops_offset)

(* --------------------------- reader: steps ----------------------------- *)

(* CowReader::Parse(fd), called once on a new reader.  cut: how many header  *)
(* fields a read that stops early has filled in.                            *)
Parse(fault, cut) ==
    /\ rproc = "running"
    /\ parsed = "never"
    /\ fd_' = "file"
    /\ LET short == file.size < HeaderSize
           h     == IF short THEN HeaderPrefix(file.hdr, cut) ELSE file.hdr
           ok    == /\ fault = "none"
                    /\ ~short
                    /\ RangeOk(h, file.size)
                    /\ SelfDescriptionOk(h)
                    /\ HeaderChecksumOk(h)
       IN  /\ cut = 0 \/ (fault = "none" /\ 0 < file.size /\ short)
           /\ fd_size_' = IF fault = "lseek_end" THEN fd_size_ ELSE file.size
           /\ header_' = IF fault = "none" THEN h ELSE header_
           /\ parsed' = IF ok THEN "ok" ELSE "failed"
           /\ last' = [NoCall EXCEPT
                          !.op = "parse",
                          !.ok = ok,
                          !.seeks = IF fault = "lseek_end" THEN <<Seek("end", 0)>>
                                    ELSE <<Seek("end", 0), Seek("set", 0)>>,
                          !.bytes = IF fault = "none" THEN BytesRead(0, HeaderSize) ELSE {}]
    /\ UNCHANGED <<file, iter, turn, yielded, req, rproc>>
    /\ UNCHANGED <<clientVars, streamVars>>

(* CowReader::GetHeader *)
GetHeader ==
    /\ rproc = "running"
    /\ last' = [NoCall EXCEPT !.op = "header", !.ok = TRUE, !.hdr = header_]
    /\ UNCHANGED <<file, fd_, header_, fd_size_, parsed, iter, turn, yielded, req, rproc>>
    /\ UNCHANGED <<clientVars, streamVars>>

(* CowReader::GetOpIter and the CowOpIter constructor. *)
GetOpIter(fault) ==
    /\ rproc = "running"
    /\ LET off    == header_.ops_offset
           size   == header_.ops_size
           seekOk == LseekSetOk(fd_, off) /\ fault # "lseek"
           readOk == ReadFullyOk(off, size)
           csumOk == SHA256("zero") = header_.ops_checksum
           ops    == [i \in 1 .. size |-> ByteAt(off + i - 1)]
           call   == [NoCall EXCEPT !.op = "op_iter", !.seeks = <<Seek("set", off)>>]
       IN  IF ~seekOk
             THEN /\ last' = call
                  /\ iter' = <<>>
                  /\ UNCHANGED rproc
           ELSE IF fault = "alloc"
             THEN /\ last' = call
                  /\ iter' = <<>>
                  /\ rproc' = "aborted"
           ELSE IF ~(readOk /\ csumOk)
             THEN /\ last' = [call EXCEPT !.bytes = BytesRead(off, size)]
                  /\ iter' = <<>>
                  /\ UNCHANGED rproc
           ELSE /\ last' = [call EXCEPT !.ok = TRUE, !.bytes = BytesRead(off, size)]
                /\ iter' = <<[ops |-> ops, pos |-> 0, done |-> ~HasNext(0, size)]>>
                /\ UNCHANGED rproc
    /\ turn' = "get"
    /\ yielded' = <<>>
    /\ UNCHANGED <<file, fd_, header_, fd_size_, parsed, req>>
    /\ UNCHANGED <<clientVars, streamVars>>

(* CowOpIter::Get, called by the loop `while (!Done()) { Get(); Next(); }`  *)
(* where it calls Get.                                                      *)
Get ==
    /\ rproc = "running"
    /\ iter # <<>>
    /\ turn = "get"
    /\ ~iter[1].done
    /\ LET it == iter[1]
       IN  IF it.done \/ ~HasNext(it.pos, Len(it.ops))
             THEN /\ rproc' = "aborted"
                  /\ UNCHANGED <<yielded, turn>>
             ELSE /\ yielded' = Append(yielded, RecordAt(it.ops, it.pos))
                  /\ turn' = "next"
                  /\ UNCHANGED rproc
    /\ last' = [NoCall EXCEPT !.op = "get", !.ok = (rproc' = "running")]
    /\ UNCHANGED <<file, fd_, header_, fd_size_, parsed, iter, req>>
    /\ UNCHANGED <<clientVars, streamVars>>

\* pos_ += sizeof(CowOperation)
Advance(pos) == pos + OpSize

\* A Next that never marks the iterator done.
DoneAfterNextUnset(done, pos, end) == done

\* if (!HasNext()) done_ = true;
DoneAfterNext(done, pos, end) == IF ~HasNext(pos, end) THEN TRUE ELSE done

(* CowOpIter::Next, called by that loop where it calls Next. *)
IterNext ==
    /\ rproc = "running"
    /\ iter # <<>>
    /\ turn = "next"
    /\ ~iter[1].done
    /\ LET it  == iter[1]
           pos == Advance(it.pos)
       IN  IF it.done
             THEN /\ rproc' = "aborted"
                  /\ UNCHANGED <<iter, turn>>
             ELSE /\ iter' = <<[it EXCEPT !.pos = pos,
                                          !.done = DoneAfterNext(it.done, pos, Len(it.ops))]>>
                  /\ turn' = "get"
                  /\ UNCHANGED rproc
    /\ last' = [NoCall EXCEPT !.op = "next", !.ok = (rproc' = "running")]
    /\ UNCHANGED <<file, fd_, header_, fd_size_, parsed, yielded, req>>
    /\ UNCHANGED <<clientVars, streamVars>>

\* What ::read(fd, buffer, len) may return at position offset: -1 for an
\* error, 0 at the end of the file or for len = 0, else 1 .. len bytes of
\* what is left.
ReadResults(offset, len) ==
    LET avail == IF offset < file.size THEN file.size - offset ELSE 0
        most  == IF len < avail THEN len ELSE avail
    IN  {-1} \cup (IF most = 0 THEN {0} ELSE 1 .. most)

(* CowReader::GetRawBytes(offset, buffer, len, read).  rv: what ::read      *)
(* returns.                                                                 *)
GetRawBytes(offset, len, rv) ==
    /\ rproc = "running"
    /\ LET call == [NoCall EXCEPT !.op = "read_raw", !.off = offset, !.len = len]
       IN  IF ~RawRangeOk(offset, len)
             THEN /\ rv = -1
                  /\ last' = call
           ELSE IF ~LseekSetOk(fd_, offset)
             THEN /\ rv = -1
                  /\ last' = [call EXCEPT !.seeks = <<Seek("set", offset)>>]
           ELSE /\ last' = [call EXCEPT
                               !.ok = (rv >= 0),
                               !.n = IF rv >= 0 THEN rv ELSE 0,
                               !.seeks = <<Seek("set", offset)>>,
                               !.bytes = IF rv >= 0 THEN offset .. (offset + rv - 1) ELSE {}]
    /\ UNCHANGED <<file, fd_, header_, fd_size_, parsed, iter, turn, yielded, req, rproc>>
    /\ UNCHANGED clientVars

\* The compression values of CowOperation, and one that is none of them.
Compressions == {"kCowCompressNone", "kCowCompressGz", "kCowCompressBrotli", "other"}

\* The operations handed to ReadData.
Ops == [compression : Compressions, source : Words, data_length : 0 .. MaxDataLength]

\* A ReadData whose switch has no default case.
KnownCompressionAny(c) == TRUE

\* The cases of ReadData's switch.
KnownCompression(c) == c \in {"kCowCompressNone", "kCowCompressGz", "kCowCompressBrotli"}

\* A Read that asks for the whole buffer.
ToReadWholeBuffer(length, remaining) == length

\* CowDataStream::Read: to_read = std::min(length, remaining_).
ToRead(length, remaining) == IF length < remaining THEN length ELSE remaining

(* CowReader::ReadData(op, sink) up to decompressor->Decompress(): the       *)
(* switch, the CowDataStream constructor, set_stream and set_sink.           *)
ReadData(op) ==
    /\ rproc = "running"
    /\ stream = <<>>
    /\ last.op # "read_data"
    /\ last' = [NoCall EXCEPT !.op = "read_data", !.off = op.source, !.len = op.data_length,
                              !.compression = op.compression,
                              !.ok = KnownCompression(op.compression)]
    /\ IF ~KnownCompression(op.compression)
         THEN UNCHANGED streamVars
         ELSE /\ stream' = <<[offset_ |-> op.source, data_length_ |-> op.data_length,
                               remaining_ |-> op.data_length, source |-> op.source]>>
              /\ dec' = op.compression
              /\ UNCHANGED <<sread, served, sink>>
    /\ UNCHANGED <<file, fd_, header_, fd_size_, parsed, iter, turn, yielded, req, rproc>>
    /\ UNCHANGED clientVars

(* CowDataStream::Read(buffer, length, read), called by the decompressor,    *)
(* which hands what it gets on to the sink.                                  *)
Read(length) ==
    /\ rproc = "running"
    /\ stream # <<>>
    /\ LET st      == stream[1]
           to_read == ToRead(length, st.remaining_)
           result(ok, n, raw) ==
               [ok |-> ok, n |-> n, length |-> length, raw |-> raw, left |-> st.remaining_]
       IN  IF to_read = 0
             THEN /\ sread' = result(TRUE, 0, FALSE)
                  /\ UNCHANGED <<stream, served, sink, dec>>
                  /\ UNCHANGED <<readerVars, clientVars>>
             ELSE /\ \E rv \in ReadResults(st.offset_, to_read) :
                         GetRawBytes(st.offset_, to_read, rv)
                  /\ IF last'.ok
                       THEN /\ sread' = result(TRUE, last'.n, TRUE)
                            /\ stream' = <<[st EXCEPT
                                   !.offset_ = Wrap(st.offset_ + last'.n),
                                   !.remaining_ = Wrap(st.remaining_ + Modulus - last'.n)]>>
                            /\ served' = served \o [i \in 1 .. last'.n |-> st.offset_ + i - 1]
                            /\ sink' = sink \cup {[codec |-> dec, byte |-> ByteAt(b)] :
                                                    b \in last'.bytes}
                       ELSE /\ sread' = result(FALSE, 0, TRUE)
                            /\ UNCHANGED <<stream, served, sink>>
                  /\ UNCHANGED dec

NoRead == [ok |-> FALSE, n |-> 0, length |-> 0, raw |-> FALSE, left |-> 0]

StreamCreated ==
    /\ stream = <<>>
    /\ dec = "none"
    /\ sread = NoRead
    /\ served = <<>>
    /\ sink = {}

ReaderCreated ==
    /\ StreamCreated
    /\ fd_ = "none"
    /\ header_ = ZeroHeader
    /\ fd_size_ = 0
    /\ parsed = "never"
    /\ iter = <<>>
    /\ turn = "get"
    /\ yielded = <<>>
    /\ last = NoCall
    /\ req = [offset |-> 0, len |-> 0]
    /\ rproc = "running"

\* The empty container a client-only run leaves untouched.
NoFile == [size |-> 0, hdr |-> ZeroHeader]

ParseFaults == {"none", "lseek_end", "lseek_set"}

IterFaults == {"none", "lseek", "alloc"}

(* ------------------------- the specifications -------------------------- *)

\* The client, called at most MaxCalls times, with any environment.
Init ==
    /\ ClientInit
    /\ file = NoFile
    /\ ReaderCreated

Next == ClientNext

Spec == Init /\ [][Next]_vars

\* The reader over any container: parsing, the header, the op iterator.
ReaderInit ==
    /\ ClientInit
    /\ stage = [first |-> "down", second |-> "down"]
    /\ file \in Files
    /\ ReaderCreated

ReaderNext ==
    \/ \E fault \in ParseFaults, cut \in 0 .. Len(HeaderFields) - 1 : Parse(fault, cut)
    \/ GetHeader
    \/ \E fault \in IterFaults : GetOpIter(fault)
    \/ Get
    \/ IterNext

SpecReader == ReaderInit /\ [][ReaderNext]_vars

\* The containers of the raw reads: well-formed but for the op-table range.
RawFiles ==
    {[size |-> n, hdr |-> WrittenHeader(off, 0, "zero", "zero")] :
        n \in FileSizes, off \in Words}

RawInit ==
    /\ ClientInit
    /\ stage = [first |-> "down", second |-> "down"]
    /\ file \in RawFiles
    /\ fd_ = "none"
    /\ header_ = ZeroHeader
    /\ fd_size_ = 0
    /\ parsed = "never"
    /\ iter = <<>>
    /\ turn = "get"
    /\ yielded = <<>>
    /\ last = NoCall
    /\ req \in [offset : Words, len : Words]
    /\ rproc = "running"
    /\ StreamCreated

\* The application's call of GetRawBytes.
GetRawBytesCalled ==
    /\ \E rv \in ReadResults(req.offset, req.len) : GetRawBytes(req.offset, req.len, rv)
    /\ UNCHANGED streamVars

RawNext ==
    \/ \E fault \in ParseFaults : Parse(fault, 0)
    \/ GetRawBytesCalled

SpecRaw == RawInit /\ [][RawNext]_vars

\* The containers of the streams: the op table starts after the header, in
\* or beyond the file, or at the last offset a word can hold.
StreamFiles ==
    {[size |-> n, hdr |-> WrittenHeader(off, 0, "zero", "zero")] :
        n \in FileSizes, off \in ((HeaderSize + 1) .. MaxFileSize) \cup {Modulus - 1}}

StreamInit ==
    /\ ClientInit
    /\ stage = [first |-> "down", second |-> "down"]
    /\ file \in StreamFiles
    /\ ReaderCreated
    /\ req = [offset |-> 0, len |-> 0]
    /\ rproc = "running"

\* ReadData on a reader that Parse was called on, and the decompressor's
\* reads of the stream.
StreamNext ==
    \/ \E fault \in ParseFaults : Parse(fault, 0)
    \/ \E op \in Ops : ReadData(op)
    \/ \E length \in 0 .. MaxBuffer : Read(length)

SpecStream == StreamInit /\ [][StreamNext]_vars

(* ------------------------- reader: properties -------------------------- *)

\* C5: GetRawBytes neither seeks nor reads nor succeeds unless
\* sizeof(header) <= offset < ops_offset, len < fd_size and offset + len,
\* added without wrapping, is at most ops_offset.
C5_RawReadRange ==
    (last.op = "read_raw" /\ (last.ok \/ last.seeks # <<>> \/ last.bytes # {})) =>
        /\ HeaderSize <= last.off
        /\ last.off < header_.ops_offset
        /\ last.len < fd_size_
        /\ last.off + last.len <= header_.ops_offset

\* C6: after a Parse that failed, GetHeader and GetOpIter do not succeed.
C6_FailedParseUnusable ==
    parsed = "failed" => ~(last.op \in {"header", "op_iter"} /\ last.ok)

\* C7: after a Parse that succeeded, sizeof(header) <= ops_offset < fd_size
\* and ops_offset + ops_size, added without wrapping, is at most fd_size.
C7_ParsedRange ==
    parsed = "ok" =>
        /\ HeaderSize <= header_.ops_offset
        /\ header_.ops_offset < fd_size_
        /\ header_.ops_offset + header_.ops_size <= fd_size_

\* C8: after a Parse that succeeded, ops_size is a multiple of
\* sizeof(CowOperation).
C8_ParsedOpsSizeMultiple == parsed = "ok" => header_.ops_size % OpSize = 0

OpCount == header_.ops_size \div OpSize

\* C9: on a parsed reader whose ops_size is a multiple of the record size,
\* GetOpIter reads no byte outside [ops_offset, ops_offset + ops_size), and
\* the loop over its iterator gets at most ops_size / sizeof(CowOperation)
\* records, Done() being true exactly when it has got them all.
C9_IteratorYieldsAllRecords ==
    (parsed = "ok" /\ header_.ops_size % OpSize = 0) =>
        /\ last.op = "op_iter" =>
              \A b \in last.bytes :
                  /\ header_.ops_offset <= b
                  /\ b < header_.ops_offset + header_.ops_size
        /\ iter # <<>> =>
              /\ rproc = "running"
              /\ Len(yielded) <= OpCount
              /\ turn = "get" => (iter[1].done <=> Len(yielded) = OpCount)
              /\ turn = "next" => ~iter[1].done

\* The loop is over after two records of a two-record table.
C9_Witness ==
    /\ parsed = "ok"
    /\ header_.ops_size = 2 * OpSize
    /\ iter # <<>>
    /\ iter[1].done
    /\ Len(yielded) = 2

\* C10: the k-th record the loop gets (k from 0) is the OpSize bytes stored at
\* offset ops_offset + k * sizeof(CowOperation) of the container.
C10_IteratorOrder ==
    iter # <<>> =>
        \A k \in 1 .. Len(yielded) :
            yielded[k] =
                [j \in 1 .. OpSize |-> ByteAt(header_.ops_offset + (k - 1) * OpSize + j - 1)]

\* Two records were got from a table that starts right after the header.
C10_Witness ==
    /\ iter # <<>>
    /\ header_.ops_offset = HeaderSize
    /\ Len(yielded) = 2

(* --------------------- client: further properties --------------------- *)

\* The application calls StartSnapuserd only.
StartNext ==
    \/ StartBegin
    \/ \E f \in ForkOutcomes : StartSnapuserdaemonFork(f)
    \/ StartSnapuserdaemonLoop
    \/ StartSnapuserdaemonPolled
    \/ StartRest
    \/ \E o \in SockOutcomes : ConnectFirstStage(o)
    \/ \E o \in SockOutcomes : ConnectSecondStage(o)
    \/ \E name \in Stages : DaemonReady(name)
    \/ ChildReturns

\* The steps of the client process itself among them.
StartProcessNext ==
    \/ StartBegin
    \/ \E f \in ForkOutcomes : StartSnapuserdaemonFork(f)
    \/ StartSnapuserdaemonLoop
    \/ StartSnapuserdaemonPolled
    \/ StartRest
    \/ \E o \in SockOutcomes : ConnectFirstStage(o)
    \/ \E o \in SockOutcomes : ConnectSecondStage(o)

\* The client process is scheduled, and none of its blocking calls blocks for
\* ever: select() has a deadline and sleep_for() a duration.
SpecStart == Init /\ [][StartNext]_vars /\ WF_vars(StartProcessNext)

InStartSnapuserdaemon == stack # <<>> /\ Top = "startd"

\* C11: StartSnapuserdaemon, in the parent, calls ConnectToServer at most
\* MAX_CONNECT_RETRY_COUNT times and no more after one returned true; it
\* returns 0 exactly after a call that returned true, with that socket closed,
\* and -1 exactly after MAX_CONNECT_RETRY_COUNT calls that returned false; and
\* once past fork() it does return (or the process aborts on a CHECK).
C11_StartDaemonTerminates ==
    /\ [](InStartSnapuserdaemon =>
            /\ Len(polls) <= MAX_CONNECT_RETRY_COUNT
            /\ \A i \in 1 .. Len(polls) - 1 : ~polls[i]
            /\ (pc \in {"cts_first", "cts_second", "cts_ret"}) =>
                  /\ Len(polls) < MAX_CONNECT_RETRY_COUNT
                  /\ \A i \in 1 .. Len(polls) : ~polls[i]
            /\ (pc = "startd_ret" /\ sret = 0) =>
                  /\ polls # <<>>
                  /\ polls[Len(polls)]
                  /\ sockfd \notin DOMAIN conn
            /\ (pc = "startd_ret" /\ sret # 0) =>
                  /\ sret = -1
                  /\ Len(polls) = MAX_CONNECT_RETRY_COUNT
                  /\ \A i \in 1 .. Len(polls) : ~polls[i])
    /\ (pc = "startd_fork") ~> (pc \in {"startd_ret", "aborted"})

\* StartSnapuserdaemon returns 0 from its last allowed poll.
C11_Witness ==
    /\ InStartSnapuserdaemon
    /\ pc = "startd_ret"
    /\ sret = 0
    /\ Len(polls) = MAX_CONNECT_RETRY_COUNT

FailedReceive(by) == rxlast.by = by /\ rxlast.kind # "data"

Forked == \E i \in 1 .. Len(wire) : wire[i] = ForkEvent

\* C12: a Receivemsg whose select() failed or timed out, or whose recv()
\* failed or found the peer gone, yields "fail": ConnectToServerSocket then
\* rejects and closes that socket, InitializeSnapuserd returns -1, and
\* RestartSnapuserd returns -1 from its step 1 without forking.
C12_FailedReceiveIsFail ==
    /\ FailedReceive("connect") =>
          /\ pc \in {"cts_second", "cts_ret"}
          /\ answered = "recv_fail"
          /\ ~cres
          /\ conn = conn0
    /\ FailedReceive("init") =>
          /\ irets # <<>>
          /\ irets[Len(irets)] = -1
    /\ FailedReceive("restart") =>
          /\ pc = "idle"
          /\ ret = <<-1>>
          /\ ~Forked

\* The select() of InitializeSnapuserd after a connect on the second socket
\* timed out.
C12_Witness ==
    /\ rxlast = [by |-> "init", kind |-> "timeout", ack |-> FALSE]
    /\ api = "init"
    /\ pc = "idle"
    /\ ret = <<-1>>
    /\ wire # <<>>
    /\ wire[Len(wire)].to = "second"

StopTo(name) == [to |-> name, msg |-> StopMsg]

\* A step in which a daemon receives "stop".
StopDelivered ==
    /\ wire' # wire
    /\ wire' # <<>>
    /\ wire'[Len(wire')].msg = StopMsg

\* C13: StopSnapuserd(true), a call that is one step from idle to idle, opens
\* the first-stage socket and sends "stop" as the only message, returning 0
\* exactly when that message went out, whatever state the daemon is in, and
\* -1 with nothing sent otherwise; it waits for no reply.  Any other step
\* that delivers "stop" is StopSnapuserd(false) after a ConnectToServer that
\* returned true, and delivers it to the daemon that answered "active" to
\* that connect's query.
C13_StopPaths ==
    [][/\ (pc = "idle" /\ calls' # calls /\ api' = "stop" /\ pc' = "idle") =>
            /\ wire' \in {<<>>, <<StopTo("first")>>}
            /\ ret' = IF wire' = <<>> THEN <<-1>> ELSE <<0>>
            /\ (stage["first"] = "passive" /\ wire' # <<>>) => ret' = <<0>>
            /\ rxlast' = NoReceive
       /\ (StopDelivered /\ pc # "idle") =>
            /\ pc = "cts_ret" /\ Top = "stop"
            /\ cres
            /\ answered = "active"
            /\ sockfd \in DOMAIN conn
            /\ conn[sockfd] = tried[Len(tried)]
            /\ wire' = Append(wire, StopTo(tried[Len(tried)]))
            /\ wire[Len(wire)] = Query(tried[Len(tried)])
            /\ rxlast' = NoReceive
            /\ ret' = <<0>>
      ]_vars

\* StopSnapuserd(true) returned 0 having sent only "stop" on the first-stage
\* socket, and the daemon is gone.
C13_Witness ==
    /\ api = "stop"
    /\ pc = "idle"
    /\ ret = <<0>>
    /\ wire = <<StopTo("first")>>
    /\ stage["first"] = "down"
    /\ nominal

\* C14: the child forked by StartSnapuserdaemon never returns from that
\* function: it is the daemon, or it is gone.
C14_ChildNeverReturns == child \in {"none", "snapuserd"}

\* C15: Parse succeeds only on a header whose stored checksum is the digest
\* of the header, and GetOpIter returns an iterator only when the stored
\* ops checksum is the digest of the op table.
C15_DigestsVerified ==
    /\ parsed = "ok" => header_.header_checksum = "sha256"
    /\ iter # <<>> => header_.ops_checksum = "sha256"

StartSent == \E i \in 1 .. Len(wire) : wire[i].msg \in {StartMsg(d) : d \in Triples}

\* C16: in RestartSnapuserd the fork comes right after a terminate-request
\* that a daemon received and acknowledged, and no start message is sent
\* before the fork; when the reply to terminate-request is no
\* acknowledgement, and whenever RestartSnapuserd returns without having
\* forked, it has returned -1 (or the process has aborted), nothing forked,
\* no start message sent.
C16_NoHandoffWithoutAck ==
    api = "restart" =>
        /\ pc = "startd_fork" =>
              /\ rxlast.by = "restart" /\ rxlast.ack
              /\ wire # <<>> /\ wire[Len(wire)].msg = TerminateMsg
              /\ ~Forked
        /\ \A i \in 1 .. Len(wire) :
              wire[i] = ForkEvent => i > 1 /\ wire[i - 1].msg = TerminateMsg
        /\ ~Forked => ~StartSent
        /\ (pc = "idle" /\ ~Forked) => ret = <<-1>>
        /\ (rxlast.by = "restart" /\ ~rxlast.ack) =>
              /\ pc \in {"idle", "aborted"}
              /\ ~Forked

\* RestartSnapuserd returned -1 because terminate-request was answered with
\* a timeout.
C16_Witness ==
    /\ api = "restart"
    /\ pc = "idle"
    /\ ret = <<-1>>
    /\ rxlast.by = "restart" /\ rxlast.kind = "timeout"
    /\ wire # <<>> /\ wire[Len(wire)].msg = TerminateMsg

\* C17: in a RestartSnapuserd whose daemons follow the protocol, after the
\* fork the process does not abort, every ConnectToServer that returns true
\* has been turned away by the first stage and holds the second-stage socket,
\* whose daemon answered "active"; StartSnapuserdaemon returns 0 only with
\* the second-stage daemon up; and every start message went to the second
\* stage.  In any RestartSnapuserd, a first stage that answers "passive" is
\* closed and the second-stage socket is tried next.
C17_HandoffToSecondStage ==
    /\ []((api = "restart" /\ nominal /\ Forked) =>
            /\ pc # "aborted"
            /\ (pc = "cts_ret" /\ cres) =>
                  /\ tried = <<"first", "second">>
                  /\ answered = "active"
                  /\ sockfd \in DOMAIN conn /\ conn[sockfd] = "second"
            /\ (pc = "startd_ret" /\ sret = 0) => stage["second"] = "active"
            /\ \A i \in 1 .. Len(wire) :
                  wire[i].msg \in {StartMsg(d) : d \in Triples} => wire[i].to = "second")
    /\ [][(api = "restart" /\ pc = "cts_first" /\ answered' = "passive") =>
            /\ pc' = "cts_second"
            /\ conn' = conn
            /\ wire' = Append(wire, Query("first"))]_vars

\* Both start messages of a two-triple restart reached the second stage.
C17_Witness ==
    /\ RestartReturned
    /\ nominal
    /\ Len(vec) = 2
    /\ Len(irets) = 2
    /\ wire[Len(wire)] = [to |-> "second", msg |-> StartMsg(vec[2])]

(* ------------------------- stream: properties -------------------------- *)

\* C18: for a CowDataStream created at (source, data_length): offset_ +
\* remaining_ = source + data_length in every state; remaining_ never exceeds
\* data_length (no underflow); the bytes handed out so far are the first
\* data_length - remaining_ bytes from source on, so never more than
\* data_length and none outside [source, source + data_length); a Read
\* returns at most min(length, remaining_) bytes; and a Read at remaining_ = 0
\* returns true with no bytes and without calling GetRawBytes.
C18_StreamAccounting ==
    stream # <<>> =>
        LET st == stream[1]
        IN  /\ st.offset_ + st.remaining_ = st.source + st.data_length_
            /\ st.remaining_ <= st.data_length_
            /\ Len(served) = st.data_length_ - st.remaining_
            /\ \A i \in 1 .. Len(served) : served[i] = st.source + i - 1
            /\ sread.n <= sread.length
            /\ sread.n <= sread.left
            /\ (sread # NoRead /\ sread.left = 0) =>
                  sread.ok /\ sread.n = 0 /\ ~sread.raw

\* A stream of three bytes was served by a short read of one byte and a read
\* of the rest, and the read after that returned nothing.
C18_Witness ==
    /\ stream # <<>>
    /\ stream[1].data_length_ = 3
    /\ stream[1].remaining_ = 0
    /\ Len(served) = 3
    /\ sread = [ok |-> TRUE, n |-> 0, length |-> MaxBuffer, raw |-> FALSE, left |-> 0]

(* ------------------------ iterator: properties ------------------------- *)

\* C19: while an iterator is driven by the loop, done_ is true exactly when
\* fewer than a record's bytes remain, pos_ is never past end_, no CHECK of
\* Get or Next has fired, and every record Get returned is a whole record of
\* the buffer (a trailing partial record is never returned); and no Get or
\* Next takes done_ from true back to false.
C19_IteratorInvariant ==
    /\ [](iter # <<>> =>
            LET it == iter[1]
            IN  /\ it.pos <= Len(it.ops)
                /\ it.done <=> (Len(it.ops) - it.pos < OpSize)
                /\ rproc = "running"
                /\ Len(yielded) * OpSize <= Len(it.ops)
                /\ \A k \in 1 .. Len(yielded) : Len(yielded[k]) = OpSize)
    /\ [][(iter # <<>> /\ iter' # <<>> /\ last'.op \in {"get", "next"} /\ iter[1].done)
              => iter'[1].done]_vars

\* The loop has ended in front of a trailing partial record.
C19_Witness ==
    /\ iter # <<>>
    /\ iter[1].done
    /\ Len(iter[1].ops) = OpSize + 1
    /\ iter[1].pos = OpSize
    /\ Len(yielded) = 1

(* ------------------------ ReadData: properties ------------------------- *)

\* C20: ReadData on an operation whose compression is none of NONE, GZ,
\* BROTLI returns false having created no stream and no decompressor, made
\* no seek and no read of the file, and given the sink nothing.
C20_UnknownCompressionRejected ==
    (last.op = "read_data" /\ last.compression = "other") =>
        /\ ~last.ok
        /\ last.seeks = <<>>
        /\ last.bytes = {}
        /\ stream = <<>>
        /\ dec = "none"
        /\ sread = NoRead
        /\ served = <<>>
        /\ sink = {}

\* ReadData was called on a parsed reader for three bytes of unknown
\* compression.
C20_Witness ==
    /\ last.op = "read_data"
    /\ last.compression = "other"
    /\ last.len = 3
    /\ parsed = "ok"

====
